---- MODULE Spec2Model ----
(***************************************************************************)
(* Model of pkg/plugins/scheduler.go: the CustomScheduler plugin           *)
(* (New, PreFilter, Score, NormalizeScore).                                *)
(*                                                                         *)
(* Go's int64 (and int on a 64-bit platform) is modelled bit-exactly: a    *)
(* value is its 64-bit two's-complement pattern, held as four 16-bit limbs *)
(* <<l1, l2, l3, l4>>, least significant first.                            *)
(***************************************************************************)
EXTENDS Integers, Sequences, FiniteSets, Bags, TLC

----------------------------------------------------------------------------
(* 64-bit integer arithmetic *)

Base == 65536
HalfBase == 32768

Zero64 == <<0, 0, 0, 0>>
One64 == <<1, 0, 0, 0>>
MaxInt64 == <<65535, 65535, 65535, 32767>>
MinInt64 == <<0, 0, 0, 32768>>
MaxUint64 == <<65535, 65535, 65535, 65535>>

\* int64(n) for a small non-negative n (n < 2^31)
ToInt64(n) == <<n % Base, n \div Base, 0, 0>>

\* a + b, wrapping modulo 2^64
Add64(a, b) ==
    LET s1 == a[1] + b[1]
        s2 == a[2] + b[2] + (s1 \div Base)
        s3 == a[3] + b[3] + (s2 \div Base)
        s4 == a[4] + b[4] + (s3 \div Base)
    IN  <<s1 % Base, s2 % Base, s3 % Base, s4 % Base>>

\* -a, wrapping modulo 2^64 (so -MinInt64 = MinInt64, as in Go)
Neg64(a) ==
    Add64(<<Base - 1 - a[1], Base - 1 - a[2], Base - 1 - a[3], Base - 1 - a[4]>>, One64)

\* a - b, wrapping modulo 2^64
Sub64(a, b) == Add64(a, Neg64(b))

\* a * k for a small non-negative k (k < 2^14), wrapping modulo 2^64
MulSmall64(a, k) ==
    LET p1 == a[1] * k
        p2 == a[2] * k + (p1 \div Base)
        p3 == a[3] * k + (p2 \div Base)
        p4 == a[4] * k + (p3 \div Base)
    IN  <<p1 % Base, p2 % Base, p3 % Base, p4 % Base>>

\* a * b, wrapping modulo 2^64, for b that fits in the lowest limb
Mul64(a, b) == MulSmall64(a, b[1])

\* unsigned a < b
ULess64(a, b) ==
    IF a[4] # b[4] THEN a[4] < b[4]
    ELSE IF a[3] # b[3] THEN a[3] < b[3]
    ELSE IF a[2] # b[2] THEN a[2] < b[2]
    ELSE a[1] < b[1]

IsNeg64(a) == a[4] >= HalfBase

\* signed a < b
Less64(a, b) ==
    IF IsNeg64(a) # IsNeg64(b) THEN IsNeg64(a) ELSE ULess64(a, b)

LessEq64(a, b) == ~Less64(b, a)

\* the pattern shifted left by one bit, with bit `low` shifted in
Shl64(a, low) ==
    <<(2 * a[1] + low) % Base,
      (2 * a[2] + (a[1] \div HalfBase)) % Base,
      (2 * a[3] + (a[2] \div HalfBase)) % Base,
      (2 * a[4] + (a[3] \div HalfBase)) % Base>>

\* one step of unsigned long division by d: s = <<n, q, r, k>> holds the
\* numerator bits still to bring down (most significant first), the quotient
\* so far, the running remainder (r < d <= 2^63, so the shift of r never
\* overflows) and the number of steps to go
UDivBit(s, d) ==
    LET r1 == Shl64(s[3], s[1][4] \div HalfBase)
    IN  IF ULess64(r1, d)
        THEN <<Shl64(s[1], 0), Shl64(s[2], 0), r1, s[4] - 1>>
        ELSE <<Shl64(s[1], 0), Shl64(s[2], 1), Sub64(r1, d), s[4] - 1>>

\* the remaining steps, four at a time
RECURSIVE UDivSteps(_, _)
UDivSteps(s, d) ==
    IF s[4] = 0 THEN s[2]
    ELSE UDivSteps(UDivBit(UDivBit(UDivBit(UDivBit(s, d), d), d), d), d)

\* unsigned n / d, d # 0
UDiv64(n, d) == UDivSteps(<<n, Zero64, Zero64, 64>>, d)

Abs64(a) == IF IsNeg64(a) THEN Neg64(a) ELSE a

\* Go's a / b on int64, b # 0: truncates toward zero; MinInt64 / -1 wraps
Div64(a, b) ==
    LET q == UDiv64(Abs64(a), Abs64(b))
    IN  IF IsNeg64(a) # IsNeg64(b) THEN Neg64(q) ELSE q

----------------------------------------------------------------------------
(* Bounds of the model *)

\* most members of a JSON object handed to New
MaxMembers == 2
\* most pods in the informer cache
MaxPods == 3
\* most entries of a NodeScoreList
MaxBatch == 3

----------------------------------------------------------------------------
(* Program constants *)

groupNameLabel == "podGroup"
minAvailableLabel == "minAvailable"
leastMode == "Least"
mostMode == "Most"
MaxNodeScore == 100

\* framework.Code values used by the plugin
Success == "Success"
Error == "Error"
Unschedulable == "Unschedulable"

\* framework.NewStatus(code, msg)
NewStatus(code, msg) == [code |-> code, msg |-> msg]
\* a nil *framework.Status, which the framework reads as Success
NilStatus == [code |-> Success, msg |-> ""]

----------------------------------------------------------------------------
(* New: configuration resolution *)

\* The raw configuration bytes (runtime.Unknown.Raw), by their JSON structure:
\*   kind "invalid": not well-formed JSON (the empty input included);
\*   kind "null":    the JSON value null;
\*   kind "array":   a well-formed JSON value that is not an object;
\*   kind "object":  an object, its members in source order.
\* A member value is a JSON string (t = "string", its text in s), a JSON
\* number or null.
ModeTexts == {"Least", "Most", "Average", ""}
JsonValues ==
    {[t |-> "string", s |-> m] : m \in ModeTexts}
        \cup {[t |-> "number", s |-> ""], [t |-> "null", s |-> ""]}
JsonKeys == {"mode", "Mode", "other"}
JsonMembers == [key : JsonKeys, val : JsonValues]

RECURSIVE SeqsUpTo(_, _)
SeqsUpTo(S, n) ==
    IF n = 0 THEN {<<>>}
    ELSE LET shorter == SeqsUpTo(S, n - 1)
         IN  shorter \cup {Append(q, x) : q \in {r \in shorter : Len(r) = n - 1}, x \in S}

RawPayloads ==
    {[kind |-> "invalid", members |-> <<>>],
     [kind |-> "null", members |-> <<>>],
     [kind |-> "array", members |-> <<>>]}
        \cup {[kind |-> "object", members |-> ms] : ms \in SeqsUpTo(JsonMembers, MaxMembers)}

\* obj: no configuration object (nil), or a *runtime.Unknown with Raw bytes
NilObj == [isNil |-> TRUE, Raw |-> [kind |-> "invalid", members |-> <<>>]]
Objs == {NilObj} \cup {[isNil |-> FALSE, Raw |-> raw] : raw \in RawPayloads}

\* encoding/json matches an object key to the field tagged `json:"mode"`
\* exactly or, failing that, case-insensitively
MatchesModeField(key) == key \in {"mode", "Mode"}

\* the zero value of CustomSchedulerArgs
ZeroArgs == [Mode |-> ""]

\* json.Unmarshal of an object's members into csArgs, in order: a string
\* stored into the field, null leaves it, any other value is a type
\* error that is remembered while decoding goes on with the next member
RECURSIVE UnmarshalMembers(_, _, _, _)
UnmarshalMembers(members, i, csArgs, err) ==
    IF i > Len(members) THEN [csArgs |-> csArgs, err |-> err]
    ELSE LET m == members[i]
         IN  IF ~MatchesModeField(m.key)
             THEN UnmarshalMembers(members, i + 1, csArgs, err)
             ELSE IF m.val.t = "string"
             THEN UnmarshalMembers(members, i + 1, [csArgs EXCEPT !.Mode = m.val.s], err)
             ELSE IF m.val.t = "null"
             THEN UnmarshalMembers(members, i + 1, csArgs, err)
             ELSE UnmarshalMembers(members, i + 1, csArgs,
                                   IF err = "" THEN "json: cannot unmarshal number" ELSE err)

\* json.Unmarshal(args.Raw, &csArgs): the filled structure and the error
\* ("" for nil)
Unmarshal(raw, csArgs) ==
    CASE raw.kind = "invalid" -> [csArgs |-> csArgs, err |-> "json: syntax error"]
      [] raw.kind = "null" -> [csArgs |-> csArgs, err |-> ""]
      [] raw.kind = "array" -> [csArgs |-> csArgs, err |-> "json: cannot unmarshal array"]
      [] raw.kind = "object" -> UnmarshalMembers(raw.members, 1, csArgs, "")

\* a nil plugin / a nil error
NilPlugin == <<>>
NilError == ""
InvalidModeError == "invalid mode"

\* New as it would be if an empty mode kept the default
NewOfDefaultingEmptyMode(o) ==
    IF ~o.isNil
    THEN LET parsed == Unmarshal(o.Raw, ZeroArgs).csArgs.Mode
             mode == IF parsed = "" THEN leastMode ELSE parsed
         IN  IF mode # leastMode /\ mode # mostMode
             THEN [plugin |-> NilPlugin, err |-> InvalidModeError]
             ELSE [plugin |-> <<[scoreMode |-> mode]>>, err |-> NilError]
    ELSE [plugin |-> <<[scoreMode |-> leastMode]>>, err |-> NilError]

\* New(obj, h): <<the plugin, a one-element sequence holding the
\* CustomScheduler, or nil>> and the error
NewOf(o) ==
    IF ~o.isNil
    THEN LET mode == Unmarshal(o.Raw, ZeroArgs).csArgs.Mode
         IN  IF mode # leastMode /\ mode # mostMode
             THEN [plugin |-> NilPlugin, err |-> InvalidModeError]
             ELSE [plugin |-> <<[scoreMode |-> mode]>>, err |-> NilError]
    ELSE [plugin |-> <<[scoreMode |-> leastMode]>>, err |-> NilError]

----------------------------------------------------------------------------
(* PreFilter: group quorum *)

\* A Go string that the code inspects is a sequence of one-character strings.
DigitChars == <<"0", "1", "2", "3", "4", "5", "6", "7", "8", "9">>
IsDigit(c) == \E i \in 1..10 : DigitChars[i] = c
DigitVal(c) == (CHOOSE i \in 1..10 : DigitChars[i] = c) - 1

\* maxUint64/10 + 1 = 1844674407370955162
UintCutoff == <<39322, 39321, 39321, 6553>>

\* strconv.ParseUint(s, 10, 64) from character i on, n accumulated so far:
\* a character that is no digit is a syntax error with value 0, a value that
\* does not fit is a range error with value MaxUint64
RECURSIVE ParseUintFrom(_, _, _)
ParseUintFrom(s, i, n) ==
    IF i > Len(s) THEN [val |-> n, err |-> ""]
    ELSE IF ~IsDigit(s[i]) THEN [val |-> Zero64, err |-> "syntax"]
    ELSE IF ~ULess64(n, UintCutoff) THEN [val |-> MaxUint64, err |-> "range"]
    ELSE LET n10 == MulSmall64(n, 10)
             n1 == Add64(n10, ToInt64(DigitVal(s[i])))
         IN  IF ULess64(n1, n10) THEN [val |-> MaxUint64, err |-> "range"]
             ELSE ParseUintFrom(s, i + 1, n1)

ParseUint(s) ==
    IF Len(s) = 0 THEN [val |-> Zero64, err |-> "syntax"] ELSE ParseUintFrom(s, 1, Zero64)

\* strconv.Atoi(s) with a 64-bit int: an optional sign, then decimal digits;
\* 0 on a syntax error, the nearest of MaxInt64 and MinInt64 on a range error
Atoi(s) ==
    IF Len(s) = 0 THEN [val |-> Zero64, err |-> "syntax"]
    ELSE LET neg == s[1] = "-"
             digits == IF s[1] \in {"+", "-"} THEN Tail(s) ELSE s
             un == ParseUint(digits)
         IN  IF un.err # "" /\ un.err # "range" THEN [val |-> Zero64, err |-> un.err]
             ELSE IF ~neg /\ ~ULess64(un.val, MinInt64)
             THEN [val |-> MaxInt64, err |-> "range"]
             ELSE IF neg /\ ULess64(MinInt64, un.val)
             THEN [val |-> MinInt64, err |-> "range"]
             ELSE [val |-> IF neg THEN Neg64(un.val) ELSE un.val, err |-> ""]

\* Label values the model draws from
Namespaces == {"ns1", "ns2"}
\* "", "0", "2", "3", "abc", "3x", 9223372036854775807 (the largest int)
\* and 99999999999999999999 (twenty digits, too large for an int)
MinAvailableTexts ==
    {<<>>, <<"0">>, <<"2">>, <<"3">>, <<"a", "b", "c">>, <<"3", "x">>,
     <<"9", "2", "2", "3", "3", "7", "2", "0", "3", "6", "8", "5", "4", "7", "7", "5", "8", "0", "7">>,
     <<"9", "9", "9", "9", "9", "9", "9", "9", "9", "9", "9", "9", "9", "9", "9", "9", "9", "9", "9", "9">>}

\* a value that may be missing: <<>> or <<v>>
Optional(S) == {<<>>} \cup {<<v>> : v \in S}

\* the label map holding the given optional group name and threshold
MakeLabels(group, minAvailable) ==
    [k \in (IF group = <<>> THEN {} ELSE {groupNameLabel})
             \cup (IF minAvailable = <<>> THEN {} ELSE {minAvailableLabel})
       |-> IF k = groupNameLabel THEN group[1] ELSE minAvailable[1]]

\* pod.ObjectMeta.Labels[key]: the value and whether the key is present
\* (a missing key reads as the empty string)
LabelValue(labels, key) == IF key \in DOMAIN labels THEN labels[key] ELSE <<>>
LabelExists(labels, key) == key \in DOMAIN labels

\* the pods PreFilter is called with: in either namespace, without a group
\* or in group g1, with any threshold label or none
PodsToSchedule ==
    {[Namespace |-> ns, Labels |-> MakeLabels(g, m)] :
        ns \in Namespaces, g \in Optional({<<"g", "1">>}), m \in Optional(MinAvailableTexts)}

\* the pods the informer cache may hold: members of g1 in both namespaces,
\* a member of g2 and a pod without a group
CachedPods ==
    {[Namespace |-> "ns1", Labels |-> MakeLabels(<<<<"g", "1">>>>, <<>>)],
     [Namespace |-> "ns2", Labels |-> MakeLabels(<<<<"g", "1">>>>, <<>>)],
     [Namespace |-> "ns1", Labels |-> MakeLabels(<<<<"g", "2">>>>, <<>>)],
     [Namespace |-> "ns1", Labels |-> MakeLabels(<<>>, <<>>)]}

\* errors the pod lister may return ("" for nil)
ListErrors == {"", "lister unavailable"}

\* labels.SelectorFromSet(set).Matches(labels)
SelectorMatches(set, labels) ==
    \A k \in DOMAIN set : k \in DOMAIN labels /\ labels[k] = set[k]

\* Lister().Pods(namespace).List(selector) over the cache, a bag of pods
List(cache, namespace, selector) ==
    LET hit == {p \in DOMAIN cache : p.Namespace = namespace /\ SelectorMatches(selector, p.Labels)}
    IN  [p \in hit |-> cache[p]]

\* PreFilter as it would be with <= for < in the quorum test
PreFilterOfOffByOne(c, e, p) ==
    LET label == LabelValue(p.Labels, groupNameLabel)
        exists == LabelExists(p.Labels, groupNameLabel)
        minAvailable == LabelValue(p.Labels, minAvailableLabel)
    IN  IF ~exists THEN [status |-> NewStatus(Success, "no group label"), pods |-> EmptyBag]
        ELSE LET selector == [k \in {groupNameLabel} |-> label]
                 listed == IF e # "" THEN EmptyBag ELSE List(c, p.Namespace, selector)
             IN  IF e # "" THEN [status |-> NewStatus(Error, e), pods |-> listed]
                 ELSE LET minAvailableInt == Atoi(minAvailable).val
                      IN  IF LessEq64(ToInt64(BagCardinality(listed)), minAvailableInt)
                          THEN [status |-> NewStatus(Unschedulable, "not enough pods in the group"),
                                pods |-> listed]
                          ELSE [status |-> NewStatus(Success, ""), pods |-> listed]

\* PreFilter as it would be if it listed the group before looking for the
\* group label
PreFilterOfListingFirst(c, e, p) ==
    LET label == LabelValue(p.Labels, groupNameLabel)
        exists == LabelExists(p.Labels, groupNameLabel)
        minAvailable == LabelValue(p.Labels, minAvailableLabel)
        selector == [k \in {groupNameLabel} |-> label]
        listed == IF e # "" THEN EmptyBag ELSE List(c, p.Namespace, selector)
    IN  IF e # "" THEN [status |-> NewStatus(Error, e), pods |-> listed]
        ELSE IF ~exists THEN [status |-> NewStatus(Success, "no group label"), pods |-> listed]
        ELSE LET minAvailableInt == Atoi(minAvailable).val
             IN  IF Less64(ToInt64(BagCardinality(listed)), minAvailableInt)
                 THEN [status |-> NewStatus(Unschedulable, "not enough pods in the group"),
                       pods |-> listed]
                 ELSE [status |-> NewStatus(Success, ""), pods |-> listed]

\* PreFilter as it would be if it dropped the lister's error and went on with
\* the empty list
PreFilterOfDroppingListError(c, e, p) ==
    LET label == LabelValue(p.Labels, groupNameLabel)
        exists == LabelExists(p.Labels, groupNameLabel)
        minAvailable == LabelValue(p.Labels, minAvailableLabel)
    IN  IF ~exists THEN [status |-> NewStatus(Success, "no group label"), pods |-> EmptyBag]
        ELSE LET selector == [k \in {groupNameLabel} |-> label]
                 listed == IF e # "" THEN EmptyBag ELSE List(c, p.Namespace, selector)
                 minAvailableInt == Atoi(minAvailable).val
             IN  IF Less64(ToInt64(BagCardinality(listed)), minAvailableInt)
                 THEN [status |-> NewStatus(Unschedulable, "not enough pods in the group"),
                       pods |-> listed]
                 ELSE [status |-> NewStatus(Success, ""), pods |-> listed]

\* PreFilter as it would be if it used 0 whenever Atoi reports an error, a
\* range error included
PreFilterOfZeroOnAnyError(c, e, p) ==
    LET label == LabelValue(p.Labels, groupNameLabel)
        exists == LabelExists(p.Labels, groupNameLabel)
        minAvailable == LabelValue(p.Labels, minAvailableLabel)
    IN  IF ~exists THEN [status |-> NewStatus(Success, "no group label"), pods |-> EmptyBag]
        ELSE LET selector == [k \in {groupNameLabel} |-> label]
                 listed == IF e # "" THEN EmptyBag ELSE List(c, p.Namespace, selector)
             IN  IF e # "" THEN [status |-> NewStatus(Error, e), pods |-> listed]
                 ELSE LET parsed == Atoi(minAvailable)
                          minAvailableInt == IF parsed.err # "" THEN Zero64 ELSE parsed.val
                      IN  IF Less64(ToInt64(BagCardinality(listed)), minAvailableInt)
                          THEN [status |-> NewStatus(Unschedulable, "not enough pods in the group"),
                                pods |-> listed]
                          ELSE [status |-> NewStatus(Success, ""), pods |-> listed]

\* PreFilter(ctx, state, pod) over the informer cache c, the lister failing
\* with error e ("" for none): the returned status and the pods the lister
\* handed back (none when it was not asked or failed)
PreFilterOf(c, e, p) ==
    LET label == LabelValue(p.Labels, groupNameLabel)
        exists == LabelExists(p.Labels, groupNameLabel)
        minAvailable == LabelValue(p.Labels, minAvailableLabel)
    IN  IF ~exists THEN [status |-> NewStatus(Success, "no group label"), pods |-> EmptyBag]
        ELSE LET selector == [k \in {groupNameLabel} |-> label]
                 listed == IF e # "" THEN EmptyBag ELSE List(c, p.Namespace, selector)
             IN  IF e # "" THEN [status |-> NewStatus(Error, e), pods |-> listed]
                 ELSE LET minAvailableInt == Atoi(minAvailable).val
                      IN  IF Less64(ToInt64(BagCardinality(listed)), minAvailableInt)
                          THEN [status |-> NewStatus(Unschedulable, "not enough pods in the group"),
                                pods |-> listed]
                          ELSE [status |-> NewStatus(Success, ""), pods |-> listed]

----------------------------------------------------------------------------
(* Score and NormalizeScore *)

\* the nodes of the snapshot and their allocatable memory in bytes:
\* 0, 4096 (twice), 8192, 2^61 and 2^62
Snapshot ==
    [n1 |-> Zero64, n2 |-> <<4096, 0, 0, 0>>, n3 |-> <<4096, 0, 0, 0>>,
     n4 |-> <<8192, 0, 0, 0>>, n5 |-> <<0, 0, 0, 8192>>, n6 |-> <<0, 0, 0, 16384>>]
NodeNames == DOMAIN Snapshot
\* a node name the snapshot does not hold
UnknownNode == "n0"

\* SnapshotSharedLister().NodeInfos().Get(nodeName) followed by
\* Node().Status.Allocatable.Memory().Value()
Get(infos, name) ==
    IF name \in DOMAIN infos THEN [mem |-> infos[name], err |-> ""]
    ELSE [mem |-> Zero64, err |-> "nodeinfo not found"]

\* Score as it would be with the two modes exchanged
ScoreOfModesSwapped(cs, infos, name) ==
    LET nodeInfo == Get(infos, name)
    IN  IF nodeInfo.err # "" THEN [score |-> Zero64, status |-> NewStatus(Error, nodeInfo.err)]
        ELSE LET nodeMemory == nodeInfo.mem
             IN  IF cs.scoreMode = leastMode
                 THEN [score |-> nodeMemory, status |-> NilStatus]
                 ELSE IF cs.scoreMode = mostMode
                 THEN [score |-> Neg64(nodeMemory), status |-> NilStatus]
                 ELSE [score |-> Zero64, status |-> NilStatus]

\* Score(ctx, state, pod, nodeName): the raw score and the status
ScoreOf(cs, infos, name) ==
    LET nodeInfo == Get(infos, name)
    IN  IF nodeInfo.err # "" THEN [score |-> Zero64, status |-> NewStatus(Error, nodeInfo.err)]
        ELSE LET nodeMemory == nodeInfo.mem
             IN  IF cs.scoreMode = leastMode
                 THEN [score |-> Neg64(nodeMemory), status |-> NilStatus]
                 ELSE IF cs.scoreMode = mostMode
                 THEN [score |-> nodeMemory, status |-> NilStatus]
                 ELSE [score |-> Zero64, status |-> NilStatus]

\* the scan for the smallest and the largest score, from entry i on
RECURSIVE MinScoreFrom(_, _, _)
MinScoreFrom(list, i, minScore) ==
    IF i > Len(list) THEN minScore
    ELSE MinScoreFrom(list, i + 1,
                      IF Less64(list[i].Score, minScore) THEN list[i].Score ELSE minScore)

RECURSIVE MaxScoreFrom(_, _, _)
MaxScoreFrom(list, i, maxScore) ==
    IF i > Len(list) THEN maxScore
    ELSE MaxScoreFrom(list, i + 1,
                      IF Less64(maxScore, list[i].Score) THEN list[i].Score ELSE maxScore)

validMin == Zero64
validMax == ToInt64(MaxNodeScore)

\* the middle of the valid range, which equal scores are mapped to
MidpointNoHalving == Add64(validMin, validMax)
Midpoint == Div64(Add64(validMin, validMax), ToInt64(2))

\* one score mapped onto the valid range
Rescale(score, minScore, scoreRange, validRange) ==
    Add64(Div64(Mul64(Sub64(score, minScore), validRange), scoreRange), validMin)

\* NormalizeScore(ctx, state, pod, scores): the list as rewritten in place
\* and the returned status
NormalizeScoreOf(list) ==
    IF Len(list) = 0 THEN [scores |-> list, status |-> NewStatus(Success, "No scores to normalize")]
    ELSE LET minScore == MinScoreFrom(list, 1, list[1].Score)
             maxScore == MaxScoreFrom(list, 1, list[1].Score)
         IN  IF minScore = maxScore
             THEN [scores |-> [i \in DOMAIN list |->
                                 [list[i] EXCEPT !.Score = Midpoint]],
                   status |-> NewStatus(Success, "")]
             ELSE LET scoreRange == Sub64(maxScore, minScore)
                      validRange == Sub64(validMax, validMin)
                  IN  [scores |-> [i \in DOMAIN list |->
                                     [list[i] EXCEPT !.Score =
                                         Rescale(list[i].Score, minScore, scoreRange, validRange)]],
                       status |-> NewStatus(Success, "")]

----------------------------------------------------------------------------
(* State *)

VARIABLES
    obj,            \* the configuration object of the last New call
    newRet,         \* what the last New call returned, <<>> before any call
    cache,          \* the pods in the informer cache, a bag
    pod,            \* the pod of the last PreFilter call
    listError,      \* the error the lister returned in that call
    pods,           \* the pods the lister returned in that call, a bag
    preFilterRet,   \* the status of the last PreFilter call, <<>> before any
    nodeInfos,      \* the snapshot: node name -> allocatable memory
    nodeName,       \* the node of the last Score call
    scoreRet,       \* what the last Score call returned, <<>> before any
    scores,         \* the NodeScoreList of the current scheduling cycle
    rawScores,      \* the list as it was handed to NormalizeScore
    normalizeRet    \* the status NormalizeScore returned for the list, <<>> before

newVars == <<obj, newRet>>
preFilterVars == <<cache, pod, listError, pods, preFilterRet>>
scoreVars == <<nodeInfos, nodeName, scoreRet, scores, rawScores, normalizeRet>>
vars == <<obj, newRet, cache, pod, listError, pods, preFilterRet,
          nodeInfos, nodeName, scoreRet, scores, rawScores, normalizeRet>>

\* the plugin instance New returned
HasPlugin == newRet # <<>> /\ newRet[1].plugin # NilPlugin
cs == newRet[1].plugin[1]

\* a configuration object holding {"mode": m}
ModeObj(m) ==
    [isNil |-> FALSE,
     Raw |-> [kind |-> "object",
              members |-> <<[key |-> "mode", val |-> [t |-> "string", s |-> m]]>>]]

NoPod == [Namespace |-> "ns1", Labels |-> MakeLabels(<<>>, <<>>)]

NoPreFilterYet ==
    /\ pod = NoPod
    /\ listError = ""
    /\ pods = EmptyBag
    /\ preFilterRet = <<>>

NoScoreYet ==
    /\ nodeName = UnknownNode
    /\ scoreRet = <<>>
    /\ scores = <<>>
    /\ rawScores = <<>>
    /\ normalizeRet = <<>>

----------------------------------------------------------------------------
(* Operations *)

\* the host constructs the plugin, once
New(o) ==
    /\ newRet = <<>>
    /\ obj' = o
    /\ newRet' = <<NewOf(o)>>
    /\ UNCHANGED <<preFilterVars, scoreVars>>

\* the informer sees a pod appear
AddPod(p) ==
    /\ BagCardinality(cache) < MaxPods
    /\ cache' = cache (+) SetToBag({p})
    /\ UNCHANGED <<newVars, pod, listError, pods, preFilterRet, scoreVars>>

\* the informer sees a pod go
DeletePod(p) ==
    /\ BagIn(p, cache)
    /\ cache' = cache (-) SetToBag({p})
    /\ UNCHANGED <<newVars, pod, listError, pods, preFilterRet, scoreVars>>

\* the host runs PreFilter for pod p; the lister answers with error e
PreFilter(p, e) ==
    /\ HasPlugin
    /\ pod' = p
    /\ listError' = e
    /\ LET ret == PreFilterOf(cache, e, p)
       IN  /\ preFilterRet' = <<ret.status>>
           /\ pods' = ret.pods
    /\ UNCHANGED <<newVars, cache, scoreVars>>

\* the host scores node name for the cycle's pod, each node once in a cycle,
\* and on success records the score in the cycle's list; a failed score
\* abandons the cycle. A call after NormalizeScore belongs to the next cycle,
\* which starts with an empty list.
Score(name) ==
    /\ HasPlugin
    /\ LET ret == ScoreOf(cs, nodeInfos, name)
           list == IF normalizeRet # <<>> THEN <<>> ELSE scores
           next == IF ret.status.code = Success
                   THEN Append(list, [Name |-> name, Score |-> ret.score])
                   ELSE <<>>
       IN  /\ Len(list) < MaxBatch
           /\ \A i \in DOMAIN list : list[i].Name # name
           /\ nodeName' = name
           /\ scoreRet' = <<ret>>
           /\ scores' = next
           /\ rawScores' = next
           /\ normalizeRet' = <<>>
    /\ UNCHANGED <<newVars, preFilterVars, nodeInfos>>

\* the host normalizes the cycle's list, once
NormalizeScore ==
    /\ HasPlugin
    /\ normalizeRet = <<>>
    /\ LET ret == NormalizeScoreOf(scores)
       IN  /\ rawScores' = scores
           /\ scores' = ret.scores
           /\ normalizeRet' = <<ret.status>>
    /\ UNCHANGED <<newVars, preFilterVars, nodeInfos, nodeName, scoreRet>>

----------------------------------------------------------------------------
(* Specifications *)

\* construction: New on every configuration object
InitNew ==
    /\ obj = NilObj
    /\ newRet = <<>>
    /\ cache = EmptyBag
    /\ nodeInfos = Snapshot
    /\ NoPreFilterYet
    /\ NoScoreYet

NextNew == \E o \in Objs : New(o)

SpecNew == InitNew /\ [][NextNew]_vars

\* admission: a constructed plugin, a changing informer cache, PreFilter calls
InitPreFilter ==
    /\ obj = NilObj
    /\ newRet = <<NewOf(obj)>>
    /\ cache = EmptyBag
    /\ nodeInfos = Snapshot
    /\ NoPreFilterYet
    /\ NoScoreYet

NextPreFilter ==
    \/ \E p \in CachedPods : AddPod(p)
    \/ \E p \in CachedPods : DeletePod(p)
    \/ \E p \in PodsToSchedule, e \in ListErrors : PreFilter(p, e)

SpecPreFilter == InitPreFilter /\ [][NextPreFilter]_vars

\* scoring: a plugin constructed in either mode, a snapshot of nodes, Score
\* calls that fill the cycle's list and NormalizeScore on it
InitScore ==
    /\ obj \in {NilObj, ModeObj(leastMode), ModeObj(mostMode)}
    /\ newRet = <<NewOf(obj)>>
    /\ cache = EmptyBag
    /\ nodeInfos = Snapshot
    /\ NoPreFilterYet
    /\ NoScoreYet

NextScore ==
    \/ \E name \in NodeNames \cup {UnknownNode} : Score(name)
    \/ NormalizeScore

SpecScore == InitScore /\ [][NextScore]_vars

\* the two lookups: PreFilter over an empty and over a filled informer cache,
\* Score on nodes the snapshot holds and on one it does not
LookupCaches ==
    {EmptyBag,
     SetToBag({[Namespace |-> "ns1", Labels |-> MakeLabels(<<<<"g", "1">>>>, <<>>)]})
       (+) SetToBag({[Namespace |-> "ns1", Labels |-> MakeLabels(<<<<"g", "1">>>>, <<>>)]})
       (+) SetToBag({[Namespace |-> "ns1", Labels |-> MakeLabels(<<<<"g", "2">>>>, <<>>)]})}

LookupPods ==
    {p \in PodsToSchedule :
        /\ p.Namespace = "ns1"
        /\ LabelValue(p.Labels, minAvailableLabel) \in {<<>>, <<"2">>, <<"3">>, <<"a", "b", "c">>}}

InitLookup ==
    /\ obj = NilObj
    /\ newRet = <<NewOf(obj)>>
    /\ cache \in LookupCaches
    /\ nodeInfos = Snapshot
    /\ NoPreFilterYet
    /\ NoScoreYet

NextLookup ==
    \/ \E p \in LookupPods, e \in ListErrors : PreFilter(p, e)
    \/ \E name \in NodeNames \cup {UnknownNode} : Score(name)

SpecLookup == InitLookup /\ [][NextLookup]_vars

----------------------------------------------------------------------------
(* Properties *)

PreFilterReturned == preFilterRet # <<>>
HasGroupLabel == LabelExists(pod.Labels, groupNameLabel)
HasThresholdLabel == LabelExists(pod.Labels, minAvailableLabel)
ThresholdText == LabelValue(pod.Labels, minAvailableLabel)
NotEnoughPods == NewStatus(Unschedulable, "not enough pods in the group")

\* threshold labels that are the decimal form of a small integer
SmallThresholds ==
    {[text |-> <<"0">>, value |-> 0], [text |-> <<"2">>, value |-> 2],
     [text |-> <<"3">>, value |-> 3]}

\* the twenty-digit threshold label, too large for an int
TooLargeText ==
    <<"9", "9", "9", "9", "9", "9", "9", "9", "9", "9", "9", "9", "9", "9", "9", "9", "9", "9", "9", "9">>

\* the listed pods are members of the pod's group in the pod's namespace
ListedAreGroupMembers ==
    \A q \in DOMAIN pods :
        /\ q.Namespace = pod.Namespace
        /\ LabelExists(q.Labels, groupNameLabel)
        /\ q.Labels[groupNameLabel] = pod.Labels[groupNameLabel]

\* C1: PreFilter of a pod with a group label, the listing succeeding with
\* groupSize pods of the group and the threshold label being the decimal form
\* of minAvailable, returns Unschedulable "not enough pods in the group" when
\* groupSize < minAvailable and Success otherwise.
C1_QuorumThreshold ==
    (PreFilterReturned /\ HasGroupLabel /\ HasThresholdLabel /\ listError = "") =>
        \A d \in SmallThresholds :
            ThresholdText = d.text =>
                /\ ListedAreGroupMembers
                /\ IF BagCardinality(pods) < d.value
                   THEN preFilterRet[1] = NotEnoughPods
                   ELSE preFilterRet[1].code = Success

\* a group one member short of the threshold 3, in a cache that holds a third
\* pod outside the group, is rejected
C1_Witness ==
    /\ PreFilterReturned /\ HasGroupLabel /\ listError = ""
    /\ ThresholdText = <<"3">>
    /\ BagCardinality(pods) = 2
    /\ BagCardinality(cache) > 2
    /\ preFilterRet[1] = NotEnoughPods

\* C2: PreFilter of a pod without a group label returns Success, whatever the
\* threshold label, the informer cache and the lister's answer would be.
C2_UnlabeledAdmitted ==
    (PreFilterReturned /\ ~HasGroupLabel) => preFilterRet[1].code = Success

\* an unlabeled pod with the too large threshold is admitted over a filled
\* cache while the lister fails
C2_Witness ==
    /\ PreFilterReturned /\ ~HasGroupLabel
    /\ ThresholdText = TooLargeText
    /\ listError # ""
    /\ BagCardinality(cache) > 0
    /\ preFilterRet[1] = NewStatus(Success, "no group label")

NormalizeReturned == normalizeRet # <<>>
IsMinRaw(i) == \A j \in DOMAIN rawScores : LessEq64(rawScores[i].Score, rawScores[j].Score)
IsMaxRaw(i) == \A j \in DOMAIN rawScores : LessEq64(rawScores[j].Score, rawScores[i].Score)
AllRawEqual == \A i, j \in DOMAIN rawScores : rawScores[i].Score = rawScores[j].Score

\* C3: after NormalizeScore on a non-empty list of raw scores, every score
\* lies in 0..MaxNodeScore and, unless all raw scores were equal (the case of
\* C7), an entry that held the smallest raw score holds 0 and an entry that
\* held the largest holds MaxNodeScore.
C3_NormalizationBounds ==
    (NormalizeReturned /\ Len(rawScores) > 0) =>
        \A i \in DOMAIN scores :
            /\ LessEq64(Zero64, scores[i].Score)
            /\ LessEq64(scores[i].Score, ToInt64(MaxNodeScore))
            /\ (~AllRawEqual /\ IsMinRaw(i)) => scores[i].Score = Zero64
            /\ (~AllRawEqual /\ IsMaxRaw(i)) => scores[i].Score = ToInt64(MaxNodeScore)

ScoreReturned == scoreRet # <<>>
\* memory a below memory b (both are non-negative)
MemoryLess(a, b) == ULess64(a, b)

\* what a successful Score call returns for a node of the snapshot: a success
\* status, and the memory negated in Least mode, the memory itself in Most
ScoreIsSignedMemory ==
    (ScoreReturned /\ nodeName \in DOMAIN nodeInfos) =>
        /\ scoreRet[1].status.code = Success
        /\ cs.scoreMode = leastMode =>
               Add64(scoreRet[1].score, nodeInfos[nodeName]) = Zero64
        /\ cs.scoreMode = mostMode => scoreRet[1].score = nodeInfos[nodeName]

\* of two nodes scored in a cycle, the one with less memory has the larger
\* score in Least mode and the smaller score in Most mode
ScoresOrderedByMemory ==
    ~NormalizeReturned =>
        \A i, j \in DOMAIN scores :
            MemoryLess(nodeInfos[scores[i].Name], nodeInfos[scores[j].Name]) =>
                /\ cs.scoreMode = leastMode => Less64(scores[j].Score, scores[i].Score)
                /\ cs.scoreMode = mostMode => Less64(scores[i].Score, scores[j].Score)

\* a Score call for the node of the call before it, the snapshot and the
\* plugin unchanged, returns what that call returned
ScoreRepeats ==
    (/\ ScoreReturned
     /\ scoreRet' # <<>>
     /\ nodeName' = nodeName
     /\ nodeInfos' = nodeInfos
     /\ newRet' = newRet) => scoreRet' = scoreRet

\* C4: Score of a node with allocatable memory m returns -m in Least mode and
\* +m in Most mode with a success status; so less memory means a larger score
\* in Least mode and a smaller one in Most mode, and a repeated call returns
\* the same score.
C4_ScoreSign ==
    /\ [](ScoreIsSignedMemory /\ ScoresOrderedByMemory)
    /\ [][ScoreRepeats]_vars

\* in Least mode the node with 4096 bytes was scored above the node with 8192
C4_Witness ==
    /\ HasPlugin /\ cs.scoreMode = leastMode
    /\ ~NormalizeReturned
    /\ \E i, j \in DOMAIN scores :
           /\ nodeInfos[scores[i].Name] = <<4096, 0, 0, 0>>
           /\ nodeInfos[scores[j].Name] = <<8192, 0, 0, 0>>
           /\ Less64(scores[j].Score, scores[i].Score)

NewReturned == newRet # <<>>
Created == NewReturned /\ newRet[1].plugin # NilPlugin
Decoded == Unmarshal(obj.Raw, ZeroArgs)

\* C5: New with a configuration payload returns an error and no plugin when
\* the payload fails to deserialize or the mode is neither Least nor Most; a
\* plugin is created only in mode Least or Most and, from a payload, only
\* when the payload deserialized without error.
C5_ConfigurationError ==
    NewReturned =>
        /\ (~obj.isNil /\ (Decoded.err # "" \/ Decoded.csArgs.Mode \notin {leastMode, mostMode})) =>
               (newRet[1].plugin = NilPlugin /\ newRet[1].err # NilError)
        /\ Created => newRet[1].plugin[1].scoreMode \in {leastMode, mostMode}
        /\ (Created /\ ~obj.isNil) => Decoded.err = ""

\* the payload is an object in which no member names the mode field
NoModeField ==
    /\ ~obj.isNil
    /\ obj.Raw.kind = "object"
    /\ \A i \in DOMAIN obj.Raw.members : ~MatchesModeField(obj.Raw.members[i].key)

CreatedAsLeast ==
    /\ Created
    /\ newRet[1].plugin[1].scoreMode = leastMode
    /\ newRet[1].err = NilError

\* C6 as stated: New succeeds in mode Least when no payload is given and when
\* the payload given carries no mode field.
C6_DefaultLeast ==
    (NewReturned /\ (obj.isNil \/ NoModeField)) => CreatedAsLeast

\* C6 as amended: New succeeds in mode Least when no payload is given; with a
\* payload that carries no mode field it returns the invalid-mode error and
\* no plugin.
C6_DefaultWithoutPayloadOnly ==
    NewReturned =>
        /\ obj.isNil => CreatedAsLeast
        /\ NoModeField => (newRet[1].plugin = NilPlugin /\ newRet[1].err = InvalidModeError)

\* New was called with the empty object and returned no plugin
C6_Witness ==
    /\ NewReturned
    /\ NoModeField
    /\ obj.Raw.members = <<>>
    /\ newRet[1].plugin = NilPlugin

\* C7: NormalizeScore on a non-empty list whose raw scores are all equal sets
\* every score to MaxNodeScore / 2 and returns Success; on the empty list it
\* returns Success and leaves the list as it was.
C7_DegenerateBatch ==
    NormalizeReturned =>
        /\ normalizeRet[1].code = Success
        /\ Len(rawScores) = 0 => scores = rawScores
        /\ (Len(rawScores) > 0 /\ AllRawEqual) =>
               /\ Len(scores) = Len(rawScores)
               /\ \A i \in DOMAIN scores : scores[i].Score = ToInt64(MaxNodeScore \div 2)

\* two nodes with equal raw scores were normalized to the middle score
C7_Witness ==
    /\ NormalizeReturned
    /\ Len(rawScores) = 2
    /\ rawScores[1].Name # rawScores[2].Name
    /\ rawScores[1].Score = rawScores[2].Score
    /\ scores[1].Score = <<50, 0, 0, 0>>
    /\ scores[2].Score = <<50, 0, 0, 0>>

\* C8: a failed lookup is returned as an error: PreFilter of a pod with a
\* group label returns Error with the lister's error text whatever the
\* threshold label is, and Score of a node the snapshot does not hold returns
\* score 0 and Error with the lookup's error text; Unschedulable is returned
\* only when the listing succeeded and the group is below the threshold.
C8_LookupFailure ==
    /\ (PreFilterReturned /\ HasGroupLabel /\ listError # "") =>
           preFilterRet[1] = NewStatus(Error, listError)
    /\ (ScoreReturned /\ nodeName \notin DOMAIN nodeInfos) =>
           /\ scoreRet[1].score = Zero64
           /\ scoreRet[1].status = NewStatus(Error, Get(nodeInfos, nodeName).err)
    /\ (PreFilterReturned /\ preFilterRet[1].code = Unschedulable) =>
           /\ HasGroupLabel
           /\ listError = ""
           /\ Less64(ToInt64(BagCardinality(pods)), Atoi(ThresholdText).val)

\* both lookups have failed: PreFilter of a pod of the group with threshold 3
\* and Score of the unknown node returned Error
C8_Witness ==
    /\ PreFilterReturned /\ HasGroupLabel /\ listError # ""
    /\ ThresholdText = <<"3">>
    /\ preFilterRet[1].code = Error
    /\ ScoreReturned /\ nodeName = UnknownNode
    /\ scoreRet[1].status.code = Error

\* C9: NormalizeScore keeps the list's length and every entry's node name and
\* preserves the order of the scores: raw[i] <= raw[j] before the call implies
\* score[i] <= score[j] after it.
C9_OrderPreserving ==
    NormalizeReturned =>
        /\ Len(scores) = Len(rawScores)
        /\ \A i \in DOMAIN scores : scores[i].Name = rawScores[i].Name
        /\ \A i, j \in DOMAIN scores :
               LessEq64(rawScores[i].Score, rawScores[j].Score) =>
                   LessEq64(scores[i].Score, scores[j].Score)

\* threshold labels that are missing, empty or not a number
UnparsableTexts == {<<>>, <<"a", "b", "c">>, <<"3", "x">>}

====
